---- MODULE Spec2Model ----
(***************************************************************************)
(* Model of gpio_pmtiles/plugin.py: the plugin registrar                   *)
(* register_commands(cli_group), which attaches the pmtiles command to a   *)
(* host command group with one add_command call.                           *)
(*                                                                         *)
(* A command group is the host's insertion-ordered name -> command table,  *)
(* modelled as a sequence of [name, cmd] entries.  The host framework's    *)
(* duplicate-name behaviour is either "replace" (assign over the existing  *)
(* entry) or "reject" (raise, leave the table alone).                      *)
(***************************************************************************)
EXTENDS Integers, Sequences, FiniteSets, TLC

VARIABLES commands, policy, objects, globals, pc, frame, last, registered

vars == <<commands, policy, objects, globals, pc, frame, last, registered>>

(* ---------------------------- bounds ----------------------------------- *)

\* number of commands contributed by other plugins
MaxOther == 1

\* largest number of commands a group holds before any registrar has run
MaxInitial == 2

(* ---------------------------- values ----------------------------------- *)

\* Python's None
None == "None"

\* "no exception was raised"
NoExc == "NoExc"

\* the error a rejecting host raises on a name that is already registered
DuplicateName == "DuplicateName"

Groups == {"g1", "g2"}

Policies == {"replace", "reject"}

NamePool == <<"convert", "inspect", "validate", "extract">>

\* the command object that plugin.py imports from gpio_pmtiles.cli (its identity)
pmtiles == 0

\* the command objects of the other plugins
OtherCmds == 1..MaxOther

CmdIds == {pmtiles} \cup OtherCmds

\* the command objects as constructed: each carries its own declared name
InitialObjects ==
    [c \in CmdIds |-> IF c = pmtiles THEN [name |-> "pmtiles"] ELSE [name |-> NamePool[c]]]

\* module-level bindings of plugin.py after its imports have run
InitialGlobals == [pmtiles |-> pmtiles]

(* ------------------- the host's command table -------------------------- *)

Range(s) == {s[i] : i \in 1..Len(s)}

NamesOf(group) == {e.name : e \in Range(group)}

\* how many entries of the table carry the name nm
CountName(group, nm) == Cardinality({i \in 1..Len(group) : group[i].name = nm})

\* dict assignment group[nm] = cmd: an existing key keeps its position and
\* gets the new value, a new key is appended
Put(group, nm, cmd) ==
    IF nm \in NamesOf(group)
    THEN [i \in 1..Len(group) |->
            IF group[i].name = nm THEN [name |-> nm, cmd |-> cmd] ELSE group[i]]
    ELSE Append(group, [name |-> nm, cmd |-> cmd])

\* the host's add-command operation on a table `group` of a host with
\* duplicate-name behaviour `pol`: the table afterwards and the exception raised
add_command(group, pol, objs, cmd, name) ==
    LET nm == IF name = None THEN objs[cmd].name ELSE name
    IN  IF pol = "reject" /\ nm \in NamesOf(group)
        THEN [commands |-> group, exc |-> DuplicateName]
        ELSE [commands |-> Put(group, nm, cmd), exc |-> NoExc]

(* ------------------------- the registrar ------------------------------- *)

\* the objects a call can reach: every group's table, the host's
\* duplicate-name behaviour, the command objects, and plugin.py's
\* module-level bindings
Heap == [commands |-> commands, policy |-> policy, objects |-> objects, globals |-> globals]

Outcome(exc) ==
    IF exc = NoExc THEN [kind |-> "return", value |-> None]
                   ELSE [kind |-> "raise", value |-> exc]

(* Faulty registrars, used to show that each property below depends on the  *)
(* code of register_commands.                                              *)

\* returns without registering anything
register_commands_noop(h, cli_group) ==
    [commands |-> h.commands, objects |-> h.objects, globals |-> h.globals,
     calls |-> <<>>, host |-> NoExc, outcome |-> Outcome(NoExc), next |-> "idle"]

\* writes the entry into the table itself instead of asking the host
register_commands_append(h, cli_group) ==
    LET cmd == h.globals.pmtiles
        e   == [name |-> h.objects[cmd].name, cmd |-> cmd]
    IN  [commands |-> [h.commands EXCEPT ![cli_group] = Append(@, e)],
         objects  |-> h.objects, globals |-> h.globals,
         calls    |-> <<[group |-> cli_group, cmd |-> cmd, name |-> None]>>,
         host     |-> NoExc, outcome |-> Outcome(NoExc), next |-> "idle"]

\* calls add_command with an explicit name
register_commands_named(h, cli_group) ==
    LET cmd == h.globals.pmtiles
        r   == add_command(h.commands[cli_group], h.policy, h.objects,
                           cmd, NamePool[1])
    IN  [commands |-> [h.commands EXCEPT ![cli_group] = r.commands],
         objects  |-> h.objects, globals |-> h.globals,
         calls    |-> <<[group |-> cli_group, cmd |-> cmd, name |-> NamePool[1]]>>,
         host     |-> r.exc, outcome |-> Outcome(r.exc), next |-> "idle"]

\* registers the command with every group it can reach
register_commands_everywhere(h, cli_group) ==
    LET cmd == h.globals.pmtiles
        r(g) == add_command(h.commands[g], h.policy, h.objects, cmd, None)
    IN  [commands |-> [g \in DOMAIN h.commands |-> r(g).commands],
         objects  |-> h.objects, globals |-> h.globals,
         calls    |-> <<[group |-> cli_group, cmd |-> cmd, name |-> None]>>,
         host     |-> r(cli_group).exc, outcome |-> Outcome(r(cli_group).exc),
         next     |-> "idle"]

\* catches the host's error and returns normally
register_commands_swallow(h, cli_group) ==
    LET cmd == h.globals.pmtiles
        r   == add_command(h.commands[cli_group], h.policy, h.objects, cmd, None)
    IN  [commands |-> [h.commands EXCEPT ![cli_group] = r.commands],
         objects  |-> h.objects, globals |-> h.globals,
         calls    |-> <<[group |-> cli_group, cmd |-> cmd, name |-> None]>>,
         host     |-> r.exc, outcome |-> Outcome(NoExc), next |-> "idle"]

\* removes an existing pmtiles entry from the table before adding
register_commands_reinsert(h, cli_group) ==
    LET cmd == h.globals.pmtiles
        t   == SelectSeq(h.commands[cli_group], LAMBDA e : e.name # h.objects[cmd].name)
        r   == add_command(t, h.policy, h.objects, cmd, None)
    IN  [commands |-> [h.commands EXCEPT ![cli_group] = r.commands],
         objects  |-> h.objects, globals |-> h.globals,
         calls    |-> <<[group |-> cli_group, cmd |-> cmd, name |-> None]>>,
         host     |-> r.exc, outcome |-> Outcome(r.exc), next |-> "idle"]

\* retries for as long as the host raises
register_commands_retry(h, cli_group) ==
    LET cmd == h.globals.pmtiles
        r   == add_command(h.commands[cli_group], h.policy, h.objects, cmd, None)
    IN  [commands |-> [h.commands EXCEPT ![cli_group] = r.commands],
         objects  |-> h.objects, globals |-> h.globals,
         calls    |-> <<[group |-> cli_group, cmd |-> cmd, name |-> None]>>,
         host     |-> r.exc, outcome |-> Outcome(r.exc),
         next     |-> IF r.exc = NoExc THEN "idle" ELSE "line12"]

\* empties the group's table before adding
register_commands_clear(h, cli_group) ==
    LET cmd == h.globals.pmtiles
        r   == add_command(<<>>, h.policy, h.objects, cmd, None)
    IN  [commands |-> [h.commands EXCEPT ![cli_group] = r.commands],
         objects  |-> h.objects, globals |-> h.globals,
         calls    |-> <<[group |-> cli_group, cmd |-> cmd, name |-> None]>>,
         host     |-> r.exc, outcome |-> Outcome(r.exc), next |-> "idle"]

\* calls add_command twice
register_commands_twice(h, cli_group) ==
    LET cmd == h.globals.pmtiles
        c   == [group |-> cli_group, cmd |-> cmd, name |-> None]
        r1  == add_command(h.commands[cli_group], h.policy, h.objects, cmd, None)
        r2  == add_command(r1.commands, h.policy, h.objects, cmd, None)
    IN  IF r1.exc # NoExc
        THEN [commands |-> h.commands, objects |-> h.objects, globals |-> h.globals,
              calls |-> <<c>>, host |-> r1.exc, outcome |-> Outcome(r1.exc), next |-> "idle"]
        ELSE [commands |-> [h.commands EXCEPT ![cli_group] = r2.commands],
              objects |-> h.objects, globals |-> h.globals,
              calls |-> <<c, c>>, host |-> r2.exc, outcome |-> Outcome(r2.exc),
              next |-> "idle"]

\* One execution of the body of register_commands(cli_group) on heap h:
\* the tables, objects and bindings it leaves, the add_command calls it
\* made, what the host answered, how the call ended, and where control is
\* afterwards ("idle": the frame is gone).
register_commands(h, cli_group) ==
    LET cmd == h.globals.pmtiles
        r   == add_command(h.commands[cli_group], h.policy, h.objects, cmd, None)
    IN  [commands |-> [h.commands EXCEPT ![cli_group] = r.commands],
         objects  |-> h.objects,
         globals  |-> h.globals,
         calls    |-> <<[group |-> cli_group, cmd |-> cmd, name |-> None]>>,
         host     |-> r.exc,
         outcome  |-> Outcome(r.exc),
         next     |-> "idle"]

\* another plugin's registrar: adds its command c to group g under c's own name
other_registrar(h, g, c) ==
    LET r == add_command(h.commands[g], h.policy, h.objects, c, None)
    IN  [commands |-> [h.commands EXCEPT ![g] = r.commands],
         calls    |-> <<[group |-> g, cmd |-> c, name |-> None]>>,
         host     |-> r.exc,
         outcome  |-> Outcome(r.exc)]

(* --------------------------- initial state ----------------------------- *)

\* entries a group may hold before this plugin is loaded: any command under
\* its own name, or another plugin's command registered under the name pmtiles
InitialEntries ==
    {[name |-> InitialObjects[c].name, cmd |-> c] : c \in CmdIds}
        \cup {[name |-> "pmtiles", cmd |-> c] : c \in OtherCmds}

AllNames == {e.name : e \in InitialEntries}

\* a table is a dict: no name occurs twice
IsTable(group) == \A i, j \in 1..Len(group) : group[i].name = group[j].name => i = j

InitialGroups ==
    {g \in UNION {[1..n -> InitialEntries] : n \in 0..MaxInitial} : IsTable(g)}

NoOp == [op |-> "none", group |-> "none", before |-> <<>>, calls |-> <<>>,
         host |-> NoExc, outcome |-> [kind |-> "none", value |-> None],
         prev |-> [op |-> "none", group |-> "none", kind |-> "none"]]

Summary(l) == [op |-> l.op, group |-> l.group, kind |-> l.outcome.kind]

Init ==
    /\ commands \in [Groups -> InitialGroups]
    /\ policy \in Policies
    /\ objects = InitialObjects
    /\ globals = InitialGlobals
    /\ pc = "idle"
    /\ frame = [cli_group |-> "none"]
    /\ last = NoOp
    /\ registered = {}

(* ------------------------------ actions -------------------------------- *)

\* the plugin loader calls register_commands(g): the frame is entered
Invoke(g) ==
    /\ pc = "idle"
    /\ pc' = "line12"
    /\ frame' = [cli_group |-> g]
    /\ UNCHANGED <<commands, policy, objects, globals, last, registered>>

\* the body of register_commands (line 12) runs, and the call ends
Line12 ==
    /\ pc = "line12"
    /\ LET g == frame.cli_group
           r == register_commands(Heap, g)
       IN  /\ commands' = r.commands
           /\ objects' = r.objects
           /\ globals' = r.globals
           /\ pc' = r.next
           /\ last' = [op |-> "register", group |-> g, before |-> commands[g],
                       calls |-> r.calls, host |-> r.host, outcome |-> r.outcome,
                       prev |-> Summary(last)]
           /\ registered' = IF r.outcome.kind = "return"
                            THEN registered \cup {g} ELSE registered
    /\ UNCHANGED <<policy, frame>>

\* another plugin's registrar runs on group g with its command c
OtherRegistrar(g, c) ==
    /\ pc = "idle"
    /\ LET r == other_registrar(Heap, g, c)
       IN  /\ commands' = r.commands
           /\ last' = [op |-> "other", group |-> g, before |-> commands[g],
                       calls |-> r.calls, host |-> r.host, outcome |-> r.outcome,
                       prev |-> Summary(last)]
    /\ UNCHANGED <<policy, objects, globals, pc, frame, registered>>

Next ==
    \/ \E g \in Groups : Invoke(g)
    \/ Line12
    \/ \E g \in Groups, c \in OtherCmds : OtherRegistrar(g, c)

Spec == Init /\ [][Next]_vars

\* a call that has been entered runs: Python executes the body synchronously
FairSpec == Spec /\ WF_vars(Line12)

(* ------------------------------ properties ----------------------------- *)

\* a call of register_commands has just ended (nothing has run since)
JustRegistered == pc = "idle" /\ last.op = "register"

\* the table of the group the last operation was applied to
After == commands[last.group]

\* C1: after one call of register_commands on a fresh group holding zero
\* commands, the group holds exactly one command: the pmtiles command object,
\* registered under the name pmtiles.
C1_FreshGroup ==
    (JustRegistered /\ last.before = <<>>)
        => After = <<[name |-> "pmtiles", cmd |-> pmtiles]>>

C1_Witness ==
    /\ JustRegistered
    /\ last.before = <<>>
    /\ last.outcome.kind = "return"
    /\ Len(After) = 1

\* C2: whatever a group held initially, once a register_commands call on it
\* has succeeded the group holds the name pmtiles exactly once, after any
\* number of further calls.
C2_ExactlyOnce ==
    \A g \in registered : CountName(commands[g], "pmtiles") = 1

C2_Witness ==
    /\ JustRegistered
    /\ last.outcome.kind = "return"
    /\ last.prev = [op |-> "register", group |-> last.group, kind |-> "return"]
    /\ "pmtiles" \in NamesOf(last.before)
    /\ Len(After) >= 2

\* C3: a call of register_commands makes exactly one add_command call, on the
\* group passed in, with the pmtiles command object and no name override; a
\* successful call leaves the command under its own declared name and returns
\* None.
C3_OneAddCommand ==
    JustRegistered =>
        /\ last.calls = <<[group |-> last.group, cmd |-> pmtiles, name |-> None]>>
        /\ last.outcome.kind = "return" =>
              /\ last.outcome.value = None
              /\ [name |-> objects[pmtiles].name, cmd |-> pmtiles] \in Range(After)

C3_Witness ==
    /\ JustRegistered
    /\ last.outcome = [kind |-> "return", value |-> None]
    /\ Len(last.calls) = 1
    /\ After # last.before

\* C4: no step of a register_commands call, successful or failed, changes
\* another group's table, a command object, or the module-level bindings.
C4_Frame ==
    [][(pc = "line12" \/ pc' = "line12") =>
          /\ \A g \in Groups :
                (g # frame'.cli_group) => (commands'[g] = commands[g])
          /\ policy' = policy
          /\ objects' = objects
          /\ globals' = globals]_vars

C4_Witness ==
    /\ JustRegistered
    /\ last.outcome.kind = "return"
    /\ After # last.before
    /\ \E g \in Groups \ {last.group} :
          /\ "pmtiles" \notin NamesOf(commands[g])
          /\ commands[g] # <<>>

\* C5: register_commands ends exactly as the host's add_command ended: when
\* the host raised, the call raises that same error after that one attempt;
\* when the host succeeded, the call returns.
C5_ErrorPropagates ==
    JustRegistered =>
        /\ Len(last.calls) = 1
        /\ last.host # NoExc => last.outcome = [kind |-> "raise", value |-> last.host]
        /\ last.host = NoExc => last.outcome.kind = "return"

C5_Witness ==
    /\ JustRegistered
    /\ last.host = DuplicateName
    /\ last.outcome.kind = "raise"

\* C6: a second register_commands call on the same group, right after a
\* first one, leaves the group as the first call left it; on a replacing host
\* it returns, on a rejecting host it raises the host's duplicate-name error.
C6_SecondCall ==
    (JustRegistered /\ last.prev.op = "register" /\ last.prev.group = last.group) =>
        /\ After = last.before
        /\ policy = "replace" => last.outcome.kind = "return"
        /\ policy = "reject" =>
              last.outcome = [kind |-> "raise", value |-> DuplicateName]

C6_Witness ==
    /\ JustRegistered
    /\ last.prev = [op |-> "register", group |-> last.group, kind |-> "return"]
    /\ policy = "replace"
    /\ Len(After) >= 2
    /\ After[1].name = "pmtiles"

\* C7: a call of register_commands that has been entered ends after one
\* step, by returning or by raising, and every later change of a table is
\* another registrar's.
C7_Terminates ==
    /\ [][pc = "line12" =>
            /\ pc' = "idle"
            /\ last'.op = "register"
            /\ last'.outcome.kind \in {"return", "raise"}]_vars
    /\ [][(pc = "idle" /\ commands' # commands) => last'.op = "other"]_vars
    /\ (pc = "line12") ~> (pc = "idle")

C7_Witness ==
    /\ JustRegistered
    /\ last.outcome.kind = "raise"

\* C8: within the group passed in, every command registered under a name
\* other than pmtiles is still there after the call, under the same name and
\* bound to the same object, and the only name that can be new is pmtiles.
C8_OtherEntriesKept ==
    JustRegistered =>
        /\ \A e \in Range(last.before) :
              e.name # "pmtiles" => (e \in Range(After) /\ CountName(After, e.name) = 1)
        /\ NamesOf(After) \ NamesOf(last.before) \subseteq {"pmtiles"}
        /\ Cardinality(NamesOf(After)) <= Cardinality(NamesOf(last.before)) + 1

C8_Witness ==
    /\ JustRegistered
    /\ last.outcome.kind = "return"
    /\ \E e \in Range(last.before) : e.name # "pmtiles"
    /\ "pmtiles" \notin NamesOf(last.before)

\* the entries of group g after register_commands and then another plugin's
\* registrar, and after the two in the other order
RegisterThenOther(g, c) ==
    LET r1 == register_commands(Heap, g)
        h1 == [Heap EXCEPT !.commands = r1.commands]
    IN  other_registrar(h1, g, c).commands[g]

OtherThenRegister(g, c) ==
    LET r1 == other_registrar(Heap, g, c)
        h1 == [Heap EXCEPT !.commands = r1.commands]
    IN  register_commands(h1, g).commands[g]

\* C9: for every group and every other registrar that adds a command under a
\* name different from pmtiles, running register_commands before or after
\* that registrar leaves the same set of (name, command) entries.
C9_Commutes ==
    pc = "idle" =>
        \A g \in Groups, c \in OtherCmds :
            Range(RegisterThenOther(g, c)) = Range(OtherThenRegister(g, c))

C9_Witness ==
    /\ JustRegistered
    /\ last.outcome.kind = "return"
    /\ last.prev = [op |-> "other", group |-> last.group, kind |-> "return"]
    /\ "pmtiles" \notin NamesOf(last.before)
    /\ Len(After) = 2

====
